---- MODULE Spec2Model ----
(***************************************************************************)
(* Model of the dn42 repository:                                           *)
(*   - scripts/generate_topology.py : main(), load_inventory(),            *)
(*     load_global_config(), generate_geo_map(), generate_logical_diagram()*)
(*   - main.py : the per-node configuration generator                      *)
(*                                                                         *)
(* Text (hostnames, peer identities, labels) is a tuple of one-character   *)
(* strings, so that split("-"), lower() and the f-string concatenations    *)
(* are computed, not assumed.  Python dicts are functions; a dict whose    *)
(* iteration order matters is an association list.  An optional key is a   *)
(* tuple of zero or one values.                                            *)
(***************************************************************************)
EXTENDS Integers, Sequences, FiniteSets, TLC

\* ------------------------------------------------------------------ bounds
\* total number of entries (hosts, peers, bgp_peers, tunnel descriptors) of an
\* inventory the topology run is started on
MaxInput == 4
\* nodes of config.yaml, and peers listed for one node, in the config generator
MaxNodes == 2
MaxGenPeers == 2
\* routers of one site in a run of the topology generator on a single site
MaxSiteRouters == 3

\* ------------------------------------------------------------------ text
NL == "\n"

UpperChars == <<"A","B","C","D","E","F","G","H","I","J","K","L","M",
                "N","O","P","Q","R","S","T","U","V","W","X","Y","Z">>
LowerChars == <<"a","b","c","d","e","f","g","h","i","j","k","l","m",
                "n","o","p","q","r","s","t","u","v","w","x","y","z">>

\* str.lower() on one character
LowerChar(c) ==
    IF \E i \in 1..26 : UpperChars[i] = c
    THEN LowerChars[CHOOSE i \in 1..26 : UpperChars[i] = c]
    ELSE c

\* str.lower()
Lower(s) == [i \in 1..Len(s) |-> LowerChar(s[i])]

\* s.split("-")[0] : the text before the first "-", all of s when it has none
SplitFirst(s) ==
    IF \E i \in 1..Len(s) : s[i] = "-"
    THEN SubSeq(s, 1, (CHOOSE i \in 1..Len(s) :
                          s[i] = "-" /\ \A j \in 1..(i-1) : s[j] # "-") - 1)
    ELSE s

Digits == <<"0","1","2","3","4","5","6","7","8","9">>

\* str(n) of a natural number, as an f-string renders it
RECURSIVE DecStr(_)
DecStr(n) == IF n < 10 THEN <<Digits[n + 1]>>
             ELSE DecStr(n \div 10) \o <<Digits[(n % 10) + 1]>>

\* dict.get(key, default) on an optional key
GetOr(opt, default) == IF Len(opt) = 0 THEN default ELSE opt[1]

\* d.setdefault(k, v): a key that is present keeps its value
PutIfAbsent(d, k, v) == d @@ (k :> v)

\* d[k] = v on a dict
Put(d, k, v) == (k :> v) @@ d

EmptyDict == <<>>

\* number of list entries equal to v (list.count)
Count(s, v) == Cardinality({i \in 1..Len(s) : s[i] = v})

SeqToSet(s) == {s[i] : i \in 1..Len(s)}

\* sequences over S of length at most n
SeqsUpTo(S, n) == UNION {[1..k -> S] : k \in 0..n}

\* ------------------------------------------------------- program constants
\* LOCATION_COORDS, (longitude, latitude) in 1/10000 degree
LOCATION_COORDS ==
    (<<"l","h","r">> :> <<-4543, 514700>>) @@
    (<<"e","w","r">> :> <<-741745, 406895>>) @@
    (<<"l","a","x">> :> <<-1184085, 339416>>) @@
    (<<"a","m","s">> :> <<47683, 523105>>) @@
    (<<"f","r","a">> :> <<85706, 500379>>) @@
    (<<"f","r","k">> :> <<85706, 500379>>) @@
    (<<"s","i","n">> :> <<1039915, 13644>>) @@
    (<<"s","g","x">> :> <<1039915, 13644>>) @@
    (<<"s","y","d">> :> <<1511772, -339399>>) @@
    (<<"n","r","t">> :> <<1403929, 357720>>) @@
    (<<"h","k","g">> :> <<1139145, 223080>>) @@
    (<<"G","B">> :> <<-1276, 515074>>) @@
    (<<"U","S">> :> <<-957129, 370902>>) @@
    (<<"N","L">> :> <<48952, 523702>>) @@
    (<<"D","E">> :> <<104515, 511657>>) @@
    (<<"F","R">> :> <<23522, 488566>>) @@
    (<<"J","P">> :> <<1396917, 356895>>) @@
    (<<"S","G">> :> <<1038198, 13521>>) @@
    (<<"A","U">> :> <<1512093, -338688>>) @@
    (<<"C","A">> :> <<-1063468, 561304>>) @@
    (<<"H","K">> :> <<1141694, 223193>>)

\* LOGICAL_POSITIONS, in tenths
LOGICAL_POSITIONS ==
    (<<"l","h","r">> :> <<-3, 5>>) @@
    (<<"f","r","k">> :> <<-1, 4>>) @@
    (<<"e","w","r">> :> <<-7, 3>>) @@
    (<<"l","a","x">> :> <<-10, 1>>) @@
    (<<"s","g","x">> :> <<6, -3>>)

\* peer_distance = 0.45, in hundredths
PeerDistance == 45
\* spread = pi / 1.5 radians, in degrees
SpreadDeg == 120
\* lon_margin, lat_margin of the fallback viewport, in 1/10000 degree
LonMargin == 200000
LatMargin == 150000

GEO_PNG == "topology-geo.png"
LOGICAL_PNG == "topology-logical.png"

\* get_router_coords(hostname)
get_router_coords(hostname) ==
    LET prefix == Lower(SplitFirst(hostname))
    IN IF prefix \in DOMAIN LOCATION_COORDS
       THEN LOCATION_COORDS[prefix]
       ELSE LOCATION_COORDS[<<"l","h","r">>]

\* get_logical_position(hostname)
get_logical_position(hostname) ==
    LET prefix == Lower(SplitFirst(hostname))
    IN IF prefix \in DOMAIN LOGICAL_POSITIONS
       THEN LOGICAL_POSITIONS[prefix]
       ELSE <<0, 0>>

\* ------------------------------------------------------------------ inputs
HostLhr == <<"L","H","R","-","1">>
HostX == <<"x">>
HostEmpty == <<>>
HostKeys == {HostLhr, HostX, HostEmpty}

Loopbacks == {<<"l","o">>}

\* entries of a router's `peers` list
Dn42Entries ==
    {[name |-> <<"p">>, asn |-> 1, latency_us |-> 1500],
     [name |-> <<"q">>, asn |-> 2, latency_us |-> 500]}

\* entries of a router's `bgp_peers` list; `type` is optional
BgpEntries ==
    {[name |-> <<"p">>, remote_as |-> 1, type |-> << <<"i","x">> >>],
     [name |-> <<"t">>, remote_as |-> 3, type |-> <<>>]}

\* tunnel descriptors; `ospf_cost` is optional
TunnelDescs ==
    {[routers |-> <<HostLhr, HostX>>, ospf_cost |-> <<>>],
     [routers |-> <<HostLhr, HostX>>, ospf_cost |-> <<5>>],
     [routers |-> <<HostX, HostLhr>>, ospf_cost |-> <<7>>],
     [routers |-> <<HostLhr>>, ospf_cost |-> <<5>>],
     [routers |-> <<HostLhr, HostX, HostLhr>>, ospf_cost |-> <<>>]}

\* host_vars/<host>/main.yml files with at most k entries in their peer lists
HostVarsUpTo(k) ==
    UNION {{[loopback |-> lo, peers |-> p, bgp_peers |-> b] :
               lo \in Loopbacks, b \in SeqsUpTo(BgpEntries, k - Len(p))} :
           p \in SeqsUpTo(Dn42Entries, k)}

\* hosts of hosts.yml (dict keys: distinct), each with or without its
\* host_vars file, of total size at most k
RECURSIVE InventoriesUpTo(_, _)
InventoriesUpTo(k, used) ==
    {<<>>} \cup
    (IF k = 0 THEN {}
     ELSE UNION {UNION {{<<[host |-> h, vars |-> v]>> \o rest :
                           rest \in InventoriesUpTo(k - 1 - (IF Len(v) = 0 THEN 0
                                        ELSE Len(v[1].peers) + Len(v[1].bgp_peers)),
                                        used \cup {h})} :
                        v \in {<<>>} \cup {<<hv>> : hv \in HostVarsUpTo(k - 1)}} :
                 h \in HostKeys \ used})

RECURSIVE PeerEntryCount(_)
PeerEntryCount(inv) ==
    IF Len(inv) = 0 THEN 0
    ELSE (IF Len(inv[1].vars) = 0 THEN 0
          ELSE Len(inv[1].vars[1].peers) + Len(inv[1].vars[1].bgp_peers))
         + PeerEntryCount(Tail(inv))

\* ------------------------------------------------------------------- state
VARIABLES
    \* the environment of one run of generate_topology.py
    hosts_file,        \* inventory/hosts.yml exists
    inventory,         \* its hosts, each with its host_vars file if present
    global_file,       \* inventory/group_vars/all/global.yml exists
    global_yml,        \* its content
    HAS_CARTOPY,       \* set at import
    \* main()
    pc, routers, files, exit_code, stderr,
    \* locals of generate_geo_map / generate_logical_diagram
    intra_network_tunnels, sr_label,
    router_nodes, router_positions_geo, router_labels,
    ibgp_edges, edge_info, edge_labels_internal, ti,
    dn42_peers, other_peers, peer_labels, external_edges,
    edge_labels_external, peer_to_router, ri,
    router_center, peers_by_router, fi, fan, pos, G, drawn

env_vars == <<hosts_file, inventory, global_file, global_yml, HAS_CARTOPY>>
main_vars == <<pc, routers, files, exit_code, stderr>>
tunnel_vars == <<intra_network_tunnels, sr_label, ibgp_edges, edge_info,
                 edge_labels_internal, ti>>
router_vars == <<router_nodes, router_positions_geo, router_labels>>
peer_vars == <<dn42_peers, other_peers, peer_labels, external_edges,
               edge_labels_external, peer_to_router, ri>>
layout_vars == <<router_center, peers_by_router, fi, fan, pos, G>>
topo_vars == <<env_vars, main_vars, tunnel_vars, router_vars, peer_vars,
               layout_vars, drawn>>

\* the state of one run of main.py (the config generator)
VARIABLES
    config,            \* config.yaml: nodes, peers by node name
    gpc,               \* where the script is
    ni, pj,            \* indices of the node and of the peer being processed
    filename,          \* the module-level name `filename`: unbound or a text
    fs,                \* files written: path -> the chunks written, in order
    dirs,              \* directories made
    gen_exit           \* exit code, -1 while running

gen_vars == <<config, gpc, ni, pj, filename, fs, dirs, gen_exit>>
vars == <<topo_vars, gen_vars>>

\* the locals of a diagram function before its first statement
NoCenter == <<[neg |-> FALSE, bits |-> <<>>, exp |-> 0],
             [neg |-> FALSE, bits |-> <<>>, exp |-> 0]>>
NoGraph == [nodes |-> {}, edges |-> {}]
NoDrawing == <<>>

LocalsCleared ==
    /\ intra_network_tunnels = <<>> /\ sr_label = <<>>
    /\ router_nodes = <<>> /\ router_positions_geo = EmptyDict
    /\ router_labels = EmptyDict
    /\ ibgp_edges = <<>> /\ edge_info = EmptyDict
    /\ edge_labels_internal = EmptyDict /\ ti = 0
    /\ dn42_peers = <<>> /\ other_peers = <<>> /\ peer_labels = EmptyDict
    /\ external_edges = <<>> /\ edge_labels_external = EmptyDict
    /\ peer_to_router = EmptyDict /\ ri = 0
    /\ router_center = NoCenter /\ peers_by_router = <<>> /\ fi = 0
    /\ fan = <<>> /\ pos = EmptyDict /\ G = NoGraph /\ drawn = NoDrawing

\* what the model holds for global.yml when the file is absent or never read
DefaultGlobalYml == [intra_network_tunnels |-> << <<>> >>,
                     segment_routing_enabled |-> <<FALSE>>]

TopoInit ==
    /\ hosts_file \in BOOLEAN
    /\ global_file \in BOOLEAN
    /\ HAS_CARTOPY \in BOOLEAN
    /\ \E inv \in InventoriesUpTo(MaxInput, {}) :
         /\ inventory = inv
         /\ \E tl \in SeqsUpTo(TunnelDescs,
                                MaxInput - Len(inv) - PeerEntryCount(inv)) :
              \E sr \in BOOLEAN :
                 global_yml = [intra_network_tunnels |-> <<tl>>,
                               segment_routing_enabled |-> <<sr>>]
    /\ hosts_file \/ (inventory = <<>> /\ global_yml = DefaultGlobalYml)
    /\ global_file \/ global_yml = DefaultGlobalYml
    /\ pc = "main" /\ routers = <<>> /\ files = {} /\ exit_code = -1
    /\ stderr = FALSE
    /\ LocalsCleared

\* ------------------------------------------------------------ loading
\* load_inventory(), once hosts.yml is open: hosts without a host_vars file
\* are left out, the others get their key as "hostname"
load_inventory(inv) ==
    LET kept == SelectSeq(inv, LAMBDA e : Len(e.vars) = 1)
    IN [i \in 1..Len(kept) |->
          [hostname |-> kept[i].host,
           loopback |-> kept[i].vars[1].loopback,
           peers |-> kept[i].vars[1].peers,
           bgp_peers |-> kept[i].vars[1].bgp_peers]]

\* the dict {} : no key present
EmptyConfig == [intra_network_tunnels |-> <<>>, segment_routing_enabled |-> <<>>]

\* load_global_config()
load_global_config == IF global_file THEN global_yml ELSE EmptyConfig

\* index of the last entry of s equal to v
LastIndex(s, v) == CHOOSE i \in 1..Len(s) :
                      s[i] = v /\ \A j \in (i+1)..Len(s) : s[j] # v

\* a collection that leaves out the routers no peer is attached to
CollectRoutersWithPeers(rs) ==
    LET kept == SelectSeq(rs, LAMBDA r : Len(r.peers) + Len(r.bgp_peers) > 0)
    IN [i \in 1..Len(kept) |-> kept[i].hostname]

\* router_nodes after the loop over routers
CollectRouterNodes(rs) == [i \in 1..Len(rs) |-> rs[i].hostname]

\* f"{hostname}\n{loopback}"
RouterLabel(router) == router.hostname \o <<NL>> \o router.loopback

\* the router that a dict filled by `d[router["hostname"]] = ...` over the
\* routers holds the value of under key h: the last one of that hostname
LastRouterNamed(rs, h) ==
    rs[LastIndex([i \in 1..Len(rs) |-> rs[i].hostname], h)]

RouterHostnames(rs) == {rs[i].hostname : i \in 1..Len(rs)}

\* router_positions_geo after the loop over routers
RouterPositionsGeo(rs) ==
    [h \in RouterHostnames(rs) |-> get_router_coords(h)]

\* router_labels after the loop over routers
RouterLabels(rs) ==
    [h \in RouterHostnames(rs) |-> RouterLabel(LastRouterNamed(rs, h))]

\* pos after the loop over routers
RouterPositionsLogical(rs) ==
    [h \in RouterHostnames(rs) |-> get_logical_position(h)]

\* ------------------------------------------------------------ tunnels
\* a check that looks at the first router of the pair only
TunnelAcceptedFirstOnly(router_pair, nodes) ==
    /\ Len(router_pair) = 2
    /\ router_pair[1] \in SeqToSet(nodes)

\* the two conditions under which a tunnel descriptor yields an edge
TunnelAccepted(router_pair, nodes) ==
    /\ Len(router_pair) = 2
    /\ router_pair[1] \in SeqToSet(nodes)
    /\ router_pair[2] \in SeqToSet(nodes)

\* f"{ospf_cost}ms" with ospf_cost = tunnel.get("ospf_cost", "auto")
TunnelLabel(tunnel) ==
    (IF Len(tunnel.ospf_cost) = 0 THEN <<"a","u","t","o">>
     ELSE DecStr(tunnel.ospf_cost[1])) \o <<"m","s">>

\* one iteration of `for tunnel in intra_network_tunnels`, on the edge list
EdgesAfter(edges, tunnel, nodes) ==
    IF TunnelAccepted(tunnel.routers, nodes)
    THEN Append(edges, <<tunnel.routers[1], tunnel.routers[2]>>)
    ELSE edges

\* the same iteration, on the edge-label dict
LabelsAfter(labels, tunnel, nodes) ==
    IF TunnelAccepted(tunnel.routers, nodes)
    THEN Put(labels, <<tunnel.routers[1], tunnel.routers[2]>>, TunnelLabel(tunnel))
    ELSE labels

\* ------------------------------------------------------------ main()
Raise ==
    /\ pc' = "failed" /\ exit_code' = 1 /\ stderr' = TRUE

\* main(): routers = load_inventory(); a missing hosts.yml raises
MainLoadInventory ==
    /\ pc = "main"
    /\ IF hosts_file
       THEN /\ routers' = load_inventory(inventory)
            /\ pc' = "geo_collect"
            /\ UNCHANGED <<exit_code, stderr>>
       ELSE /\ Raise
            /\ UNCHANGED routers
    /\ UNCHANGED <<gen_vars, env_vars, files, tunnel_vars, router_vars, peer_vars,
                   layout_vars, drawn>>

\* ------------------------------------------------------ generate_geo_map
\* load_global_config(), the tunnel list, and the loop over routers
GeoCollect ==
    /\ pc = "geo_collect"
    /\ intra_network_tunnels' =
           GetOr(load_global_config.intra_network_tunnels, <<>>)
    /\ router_nodes' = CollectRouterNodes(routers)
    /\ router_positions_geo' = RouterPositionsGeo(routers)
    /\ router_labels' = RouterLabels(routers)
    /\ ibgp_edges' = <<>> /\ edge_info' = EmptyDict
    /\ ti' = 1
    /\ pc' = "geo_tunnels"
    /\ UNCHANGED <<gen_vars, env_vars, routers, files, exit_code, stderr, sr_label,
                   edge_labels_internal, peer_vars, layout_vars, drawn>>

\* one iteration of the loop over tunnel descriptors
GeoTunnel ==
    /\ pc = "geo_tunnels"
    /\ ti <= Len(intra_network_tunnels)
    /\ ibgp_edges' = EdgesAfter(ibgp_edges, intra_network_tunnels[ti], router_nodes)
    /\ edge_info' = LabelsAfter(edge_info, intra_network_tunnels[ti], router_nodes)
    /\ ti' = ti + 1
    /\ UNCHANGED <<gen_vars, env_vars, main_vars, intra_network_tunnels, sr_label,
                   edge_labels_internal, router_vars, peer_vars, layout_vars,
                   drawn>>

SetMin(S) == CHOOSE m \in S : \A e \in S : m <= e
SetMax(S) == CHOOSE m \in S : \A e \in S : m >= e

\* the label offset (longitude, latitude) chosen from the hostname prefix,
\* in 1/10000 degree
LabelOffset(hostname) ==
    LET prefix == Lower(SplitFirst(hostname))
    IN CASE prefix = <<"s","g","x">> -> <<-120000, 0>>
         [] prefix = <<"f","r","k">> -> <<80000, 50000>>
         [] prefix = <<"l","h","r">> -> <<-80000, 30000>>
         [] prefix = <<"l","a","x">> -> <<0, -80000>>
         [] prefix = <<"e","w","r">> -> <<0, -80000>>
         [] OTHER -> <<0, -80000>>

\* ax.plot of every edge of ibgp_edges, in list order
PlotEdges(edges, positions) ==
    [i \in 1..Len(edges) |->
        [edge |-> edges[i],
         from |-> positions[edges[i][1]], to |-> positions[edges[i][2]]]]

\* ax.scatter of every router, in list order
ScatterNodes(nodes, positions) ==
    [i \in 1..Len(nodes) |-> [node |-> nodes[i], at |-> positions[nodes[i]]]]

\* the router labels of the projected branch; text positions are doubled
\* (at2) so that the midpoints of the edge labels stay whole numbers
CartopyRouterTexts(nodes, positions, labels) ==
    [i \in 1..Len(nodes) |->
        [text |-> labels[nodes[i]],
         at2 |-> <<2 * (positions[nodes[i]][1] + LabelOffset(nodes[i])[1]),
                   2 * (positions[nodes[i]][2] + LabelOffset(nodes[i])[2])>>]]

\* the edge labels of the projected branch, at the midpoint of each edge
CartopyEdgeTexts(edges, positions, info) ==
    [i \in 1..Len(edges) |->
        [text |-> IF edges[i] \in DOMAIN info THEN info[edges[i]] ELSE <<>>,
         at2 |-> <<positions[edges[i][1]][1] + positions[edges[i][2]][1],
                   positions[edges[i][1]][2] + positions[edges[i][2]][2]>>]]

\* the branch `if HAS_CARTOPY:` of generate_geo_map
DrawCartopy(nodes, positions, labels, edges, info) ==
    [transform |-> "PlateCarree",
     extent |-> <<-1300000, 1200000, -100000, 650000>>,
     lines |-> PlotEdges(edges, positions),
     markers |-> ScatterNodes(nodes, positions),
     texts |-> CartopyRouterTexts(nodes, positions, labels)
               \o CartopyEdgeTexts(edges, positions, info)]

\* the router labels of the fallback branch, 5 degrees below each router
FallbackRouterTexts(nodes, positions, labels) ==
    [i \in 1..Len(nodes) |->
        [text |-> labels[nodes[i]],
         at2 |-> <<2 * positions[nodes[i]][1],
                   2 * (positions[nodes[i]][2] - 50000)>>]]

\* min() / max() of an empty list raise ValueError
FallbackRaises(positions) == DOMAIN positions = {}

\* the branch `else:` of generate_geo_map, when it does not raise
DrawFallback(nodes, positions, labels, edges, info) ==
    LET all_lons == {positions[h][1] : h \in DOMAIN positions}
        all_lats == {positions[h][2] : h \in DOMAIN positions}
    IN [transform |-> "linear",
        extent |-> <<SetMin(all_lons) - LonMargin, SetMax(all_lons) + LonMargin,
                     SetMin(all_lats) - LatMargin, SetMax(all_lats) + LatMargin>>,
        lines |-> PlotEdges(edges, positions),
        markers |-> ScatterNodes(nodes, positions),
        texts |-> FallbackRouterTexts(nodes, positions, labels)]

\* what a drawing shows, whatever the coordinates
DrawnNodes(d) == {d.markers[i].node : i \in 1..Len(d.markers)}
DrawnEdges(d) == {d.lines[i].edge : i \in 1..Len(d.lines)}
DrawnTexts(d) == {d.texts[i].text : i \in 1..Len(d.texts)}

\* the figure is drawn, in the projected or in the fallback branch
GeoDraw ==
    /\ pc = "geo_tunnels"
    /\ ti > Len(intra_network_tunnels)
    /\ IF HAS_CARTOPY
       THEN /\ drawn' = DrawCartopy(router_nodes, router_positions_geo,
                                    router_labels, ibgp_edges, edge_info)
            /\ pc' = "geo_save"
            /\ UNCHANGED <<exit_code, stderr>>
       ELSE IF FallbackRaises(router_positions_geo)
            THEN Raise /\ UNCHANGED drawn
            ELSE /\ drawn' = DrawFallback(router_nodes, router_positions_geo,
                                          router_labels, ibgp_edges, edge_info)
                 /\ pc' = "geo_save"
                 /\ UNCHANGED <<exit_code, stderr>>
    /\ UNCHANGED <<gen_vars, env_vars, routers, files, tunnel_vars, router_vars,
                   peer_vars, layout_vars>>

\* the locals of a diagram function are gone when it returns
ClearLocals ==
    /\ intra_network_tunnels' = <<>> /\ sr_label' = <<>>
    /\ router_nodes' = <<>> /\ router_positions_geo' = EmptyDict
    /\ router_labels' = EmptyDict
    /\ ibgp_edges' = <<>> /\ edge_info' = EmptyDict
    /\ edge_labels_internal' = EmptyDict /\ ti' = 0
    /\ dn42_peers' = <<>> /\ other_peers' = <<>> /\ peer_labels' = EmptyDict
    /\ external_edges' = <<>> /\ edge_labels_external' = EmptyDict
    /\ peer_to_router' = EmptyDict /\ ri' = 0
    /\ router_center' = NoCenter /\ peers_by_router' = <<>> /\ fi' = 0
    /\ fan' = <<>> /\ pos' = EmptyDict /\ G' = NoGraph /\ drawn' = NoDrawing

\* title, legend, plt.savefig, return
GeoSave ==
    /\ pc = "geo_save"
    /\ files' = files \cup {GEO_PNG}
    /\ pc' = "log_collect"
    /\ ClearLocals
    /\ UNCHANGED <<gen_vars, env_vars, routers, exit_code, stderr>>

\* ----------------------------------------------- generate_logical_diagram
\* load_global_config(), sr_label, and the loop over routers
LogCollect ==
    /\ pc = "log_collect"
    /\ intra_network_tunnels' =
           GetOr(load_global_config.intra_network_tunnels, <<>>)
    /\ sr_label' = IF GetOr(load_global_config.segment_routing_enabled, FALSE)
                   THEN <<"+","S","R">> ELSE <<>>
    /\ router_nodes' = CollectRouterNodes(routers)
    /\ router_labels' = RouterLabels(routers)
    /\ pos' = RouterPositionsLogical(routers)
    /\ ibgp_edges' = <<>> /\ edge_labels_internal' = EmptyDict
    /\ ti' = 1 /\ ri' = 1
    /\ pc' = "log_loops"
    /\ UNCHANGED <<gen_vars, env_vars, routers, files, exit_code, stderr, edge_info,
                   router_positions_geo, dn42_peers, other_peers, peer_labels,
                   external_edges, edge_labels_external, peer_to_router,
                   router_center, peers_by_router, fi, fan, G, drawn>>

\* one iteration of the loop over tunnel descriptors
LogTunnel ==
    /\ pc = "log_loops"
    /\ ti <= Len(intra_network_tunnels)
    /\ ibgp_edges' = EdgesAfter(ibgp_edges, intra_network_tunnels[ti], router_nodes)
    /\ edge_labels_internal' =
           LabelsAfter(edge_labels_internal, intra_network_tunnels[ti], router_nodes)
    /\ ti' = ti + 1
    /\ UNCHANGED <<gen_vars, env_vars, main_vars, intra_network_tunnels, sr_label,
                   edge_info, router_vars, peer_vars, layout_vars, drawn>>

\* f'{peer_name}_{peer_asn}'
PeerId(peer_name, peer_asn) == peer_name \o <<"_">> \o DecStr(peer_asn)

\* f"{peer_name}\nAS{peer_asn}"
PeerLabel(peer_name, peer_asn) ==
    peer_name \o <<NL, "A", "S">> \o DecStr(peer_asn)

\* f"{x:.0f}" of x = n / d : to the nearest integer, a tie to the even one
RoundHalfEven(n, d) ==
    LET q == n \div d
        r == n % d
    IN IF 2 * r < d THEN q
       ELSE IF 2 * r > d THEN q + 1
       ELSE IF q % 2 = 0 THEN q ELSE q + 1

\* f"{latency_ms:.0f}ms" with latency_ms = int(peer["latency_us"]) / 1000
LatencyLabel(peer) == DecStr(RoundHalfEven(peer.latency_us, 1000)) \o <<"m","s">>

\* the label stored for the edge to a non-DN42 peer: the empty string
\* (peer_type is read and not used)
OtherPeerEdgeLabel(peer) == <<>>

\* the peer collections, as one record
PeerState ==
    [dn42_peers |-> dn42_peers, other_peers |-> other_peers,
     peer_labels |-> peer_labels, peer_to_router |-> peer_to_router,
     external_edges |-> external_edges,
     edge_labels_external |-> edge_labels_external]

\* the body of `for peer in router["peers"]`
AddDn42Peer(st, hostname, peer) ==
    LET peer_id == PeerId(peer.name, peer.asn)
    IN [st EXCEPT
          !.dn42_peers = Append(@, peer_id),
          !.peer_labels = Put(@, peer_id, PeerLabel(peer.name, peer.asn)),
          !.peer_to_router = Put(@, peer_id, hostname),
          !.external_edges = Append(@, <<hostname, peer_id>>),
          !.edge_labels_external = Put(@, <<hostname, peer_id>>, LatencyLabel(peer))]

\* the body of `for peer in router["bgp_peers"]`
AddOtherPeer(st, hostname, peer) ==
    LET peer_id == PeerId(peer.name, peer.remote_as)
    IN [st EXCEPT
          !.other_peers = Append(@, peer_id),
          !.peer_labels = Put(@, peer_id, PeerLabel(peer.name, peer.remote_as)),
          !.peer_to_router = Put(@, peer_id, hostname),
          !.external_edges = Append(@, <<hostname, peer_id>>),
          !.edge_labels_external =
              Put(@, <<hostname, peer_id>>, OtherPeerEdgeLabel(peer))]

RECURSIVE AddDn42Peers(_, _, _)
AddDn42Peers(st, hostname, peers) ==
    IF Len(peers) = 0 THEN st
    ELSE AddDn42Peers(AddDn42Peer(st, hostname, Head(peers)), hostname, Tail(peers))

RECURSIVE AddOtherPeers(_, _, _)
AddOtherPeers(st, hostname, peers) ==
    IF Len(peers) = 0 THEN st
    ELSE AddOtherPeers(AddOtherPeer(st, hostname, Head(peers)), hostname, Tail(peers))

\* one iteration of `for router in routers`: its peers, then its bgp_peers
AddRouterPeers(st, router) ==
    AddOtherPeers(AddDn42Peers(st, router.hostname, router.peers),
                  router.hostname, router.bgp_peers)

LogPeers ==
    /\ pc = "log_loops"
    /\ ti > Len(intra_network_tunnels)
    /\ ri <= Len(routers)
    /\ LET st == AddRouterPeers(PeerState, routers[ri])
       IN /\ dn42_peers' = st.dn42_peers
          /\ other_peers' = st.other_peers
          /\ peer_labels' = st.peer_labels
          /\ peer_to_router' = st.peer_to_router
          /\ external_edges' = st.external_edges
          /\ edge_labels_external' = st.edge_labels_external
    /\ ri' = ri + 1
    /\ UNCHANGED <<gen_vars, env_vars, main_vars, tunnel_vars, router_vars, layout_vars,
                   drawn>>

\* ------------------------------------------------------------ layout
Abs(n) == IF n < 0 THEN -n ELSE n

RECURSIVE Gcd(_, _)
Gcd(a, b) == IF b = 0 THEN a ELSE Gcd(b, a % b)

\* exact fractions <<numerator, denominator>>, in lowest terms, denominator > 0
Rat(n, d) ==
    LET g == Gcd(Abs(n), Abs(d))
        sg == IF d < 0 THEN -1 ELSE 1
    IN <<sg * (n \div g), sg * (d \div g)>>
RatAdd(a, b) == Rat(a[1] * b[2] + b[1] * a[2], a[2] * b[2])
RatSub(a, b) == Rat(a[1] * b[2] - b[1] * a[2], a[2] * b[2])
RatMul(a, b) == Rat(a[1] * b[1], a[2] * b[2])
RatDiv(a, b) == Rat(a[1] * b[2], a[2] * b[1])

\* ------------------------------------------------------------ float64
\* numpy float64: 53 significant bits, round to nearest, ties to even
Precision == 53

\* a float64 is a sign and an odd whole number `bits` (most significant bit
\* first) times 2^exp; zero has no bits
FloatZero == [neg |-> FALSE, bits |-> <<>>, exp |-> 0]

Zeros(n) == [i \in 1..n |-> 0]
PadLeft(b, n) == Zeros(n - Len(b)) \o b

StripLeading(b) ==
    IF \A i \in 1..Len(b) : b[i] = 0 THEN <<>>
    ELSE SubSeq(b, CHOOSE i \in 1..Len(b) :
                      b[i] = 1 /\ \A j \in 1..(i - 1) : b[j] = 0, Len(b))

StripTrailing(b) ==
    IF \A i \in 1..Len(b) : b[i] = 0 THEN <<>>
    ELSE SubSeq(b, 1, CHOOSE i \in 1..Len(b) :
                         b[i] = 1 /\ \A j \in (i + 1)..Len(b) : b[j] = 0)

\* the bits of a whole number below 2^16
BitsOfNat(n) == StripLeading([i \in 1..16 |-> (n \div 2^(16 - i)) % 2])

\* there is a carry into bit i of a + b + c (a, b of the same length, c the
\* carry into the last bit)
Carry(a, b, i, c) ==
    \/ \E j \in (i + 1)..Len(a) :
          a[j] + b[j] = 2 /\ \A k \in (i + 1)..(j - 1) : a[k] + b[k] = 1
    \/ c = 1 /\ \A k \in (i + 1)..Len(a) : a[k] + b[k] = 1

\* a + b + c for two numbers of the same length; the result has one bit more
AddBits(a, b, c) ==
    [i \in 1..(Len(a) + 1) |->
        IF i = 1 THEN (IF Carry(a, b, 0, c) THEN 1 ELSE 0)
        ELSE (a[i - 1] + b[i - 1] + (IF Carry(a, b, i - 1, c) THEN 1 ELSE 0)) % 2]

\* bit i of a - b borrows from bit i - 1 (a, b of the same length, a >= b)
Borrow(a, b, i) ==
    \E j \in (i + 1)..Len(a) :
       a[j] < b[j] /\ \A k \in (i + 1)..(j - 1) : a[k] = b[k]

\* a - b for two numbers of the same length, a >= b
SubBits(a, b) ==
    [i \in 1..Len(a) |->
        (2 + a[i] - b[i] - (IF Borrow(a, b, i) THEN 1 ELSE 0)) % 2]

\* a < b for two numbers of the same length
BitsLess(a, b) ==
    \E i \in 1..Len(a) : a[i] < b[i] /\ \A j \in 1..(i - 1) : a[j] = b[j]

\* long division of a (a whole number of bytes) by the whole number n < 2^16,
\* a byte at a time from bit `lo` on with remainder r so far
RECURSIVE DivBits(_, _, _, _)
DivBits(a, n, lo, r) ==
    IF lo > Len(a) THEN [q |-> <<>>, r |-> r]
    ELSE LET v == r * 256 + a[lo] * 128 + a[lo + 1] * 64 + a[lo + 2] * 32
                  + a[lo + 3] * 16 + a[lo + 4] * 8 + a[lo + 5] * 4
                  + a[lo + 6] * 2 + a[lo + 7]
             rest == DivBits(a, n, lo + 8, v % n)
         IN [q |-> [i \in 1..8 |-> ((v \div n) \div 2^(8 - i)) % 2] \o rest.q,
             r |-> rest.r]

\* the float of a sign, bits and exponent that need no rounding
Float(neg, b, exp) ==
    IF \A i \in 1..Len(b) : b[i] = 0 THEN FloatZero
    ELSE [neg |-> neg, bits |-> StripTrailing(b),
          exp |-> exp + Len(b) - Len(StripTrailing(b))]

\* round b * 2^exp (b without leading zeros, `sticky` when a non-zero rest
\* below the last bit was dropped) to Precision bits
RoundNearestEven(neg, b, exp, sticky) ==
    IF Len(b) <= Precision THEN Float(neg, b, exp)
    ELSE LET top == SubSeq(b, 1, Precision)
             rest == sticky \/ \E i \in (Precision + 2)..Len(b) : b[i] = 1
             up == b[Precision + 1] = 1 /\ (rest \/ top[Precision] = 1)
         IN Float(neg,
                  IF up THEN StripLeading(AddBits(top, Zeros(Precision), 1)) ELSE top,
                  exp + Len(b) - Precision)

\* x + y
FAdd(x, y) ==
    IF Len(x.bits) = 0 THEN y
    ELSE IF Len(y.bits) = 0 THEN x
    ELSE LET e == IF x.exp < y.exp THEN x.exp ELSE y.exp
             xa == x.bits \o Zeros(x.exp - e)
             ya == y.bits \o Zeros(y.exp - e)
             L == IF Len(xa) < Len(ya) THEN Len(ya) ELSE Len(xa)
             a == PadLeft(xa, L)
             b == PadLeft(ya, L)
         IN IF x.neg = y.neg
            THEN RoundNearestEven(x.neg, StripLeading(AddBits(a, b, 0)), e, FALSE)
            ELSE IF a = b THEN FloatZero
            ELSE IF BitsLess(b, a)
            THEN RoundNearestEven(x.neg, StripLeading(SubBits(a, b)), e, FALSE)
            ELSE RoundNearestEven(y.neg, StripLeading(SubBits(b, a)), e, FALSE)

\* x - y
FSub(x, y) == FAdd(x, [y EXCEPT !.neg = (Len(y.bits) > 0 /\ ~@)])

\* x / n for a whole number n, 1 <= n < 2^16: the dividend is extended to 72
\* bits, so that the quotient has more than Precision bits
FDivInt(x, n) ==
    IF Len(x.bits) = 0 THEN FloatZero
    ELSE LET pad == 72 - Len(x.bits)
             d == DivBits(x.bits \o Zeros(pad), n, 1, 0)
         IN RoundNearestEven(x.neg, StripLeading(d.q), x.exp - pad, d.r # 0)

\* the float of a whole number below 2^16 in magnitude
FloatOfInt(k) == Float(k < 0, BitsOfNat(IF k < 0 THEN -k ELSE k), 0)

\* the float of the literal t/10, as the Python parser rounds it
FloatOfTenths(t) == FDivInt(FloatOfInt(t), 10)

\* the float64 of every coordinate LOGICAL_POSITIONS and its default hold
AnchorFloat == [t \in -10..10 |-> FloatOfTenths(t)]

\* np.add.reduce over column c of the first i rows of router_positions_arr:
\* the rows are added one after the other
RECURSIVE ColumnSum(_, _, _, _)
ColumnSum(nodes, p, c, i) ==
    IF i = 1 THEN AnchorFloat[p[nodes[1]][c]]
    ELSE FAdd(ColumnSum(nodes, p, c, i - 1), AnchorFloat[p[nodes[i]][c]])

\* router_positions_arr.mean(axis=0): the column sums divided by the count
RouterCenter(nodes, p) ==
    <<FDivInt(ColumnSum(nodes, p, 1, Len(nodes)), Len(nodes)),
      FDivInt(ColumnSum(nodes, p, 2, Len(nodes)), Len(nodes))>>

\* `if router:` on a hostname: the empty string is false
Truthy(hostname) == Len(hostname) > 0

\* peers_by_router[router].append(peer_id), creating the list when needed;
\* the dict is an association list in insertion order
GroupAppend(groups, router, peer_id) ==
    IF \E i \in 1..Len(groups) : groups[i].router = router
    THEN [i \in 1..Len(groups) |->
            IF groups[i].router = router
            THEN [groups[i] EXCEPT !.peers = Append(@, peer_id)]
            ELSE groups[i]]
    ELSE Append(groups, [router |-> router, peers |-> <<peer_id>>])

\* the loop `for peer_id in dn42_peers + other_peers`
RECURSIVE GroupPeers(_, _, _)
GroupPeers(groups, ids, owner) ==
    IF Len(ids) = 0 THEN groups
    ELSE LET peer_id == Head(ids)
             known == peer_id \in DOMAIN owner
         IN GroupPeers(IF known /\ Truthy(owner[peer_id])
                       THEN GroupAppend(groups, owner[peer_id], peer_id)
                       ELSE groups,
                       Tail(ids), owner)

\* calculate the center of the routers, group the peers by router
LogGroup ==
    /\ pc = "log_loops"
    /\ ti > Len(intra_network_tunnels)
    /\ ri > Len(routers)
    /\ router_center' = IF Len(router_nodes) > 0
                        THEN RouterCenter(router_nodes, pos) ELSE NoCenter
    /\ peers_by_router' = GroupPeers(<<>>, dn42_peers \o other_peers, peer_to_router)
    /\ fi' = 1
    /\ pc' = "log_place"
    /\ UNCHANGED <<gen_vars, env_vars, routers, files, exit_code, stderr, tunnel_vars,
                   router_vars, peer_vars, fan, pos, G, drawn>>

\* np.array([1, 0])
PlusX == <<[neg |-> FALSE, bits |-> <<1>>, exp |-> 0], FloatZero>>

\* f * 2^k
Scale(f, k) == IF Len(f.bits) = 0 THEN f ELSE [f EXCEPT !.exp = @ + k]

\* direction = router_pos - router_center in float64, and (1, 0) when its
\* norm is not above zero, which is when both differences are zero (the
\* squares of the differences that occur do not underflow).  The division by
\* the norm keeps where the vector points; the model keeps the vector up to a
\* power of two instead.
Direction(router_pos, center) ==
    LET dx == FSub(AnchorFloat[router_pos[1]], center[1])
        dy == FSub(AnchorFloat[router_pos[2]], center[2])
        low == IF Len(dx.bits) = 0 THEN dy.exp
               ELSE IF Len(dy.bits) = 0 \/ dx.exp < dy.exp THEN dx.exp
               ELSE dy.exp
    IN IF Len(dx.bits) = 0 /\ Len(dy.bits) = 0 THEN PlusX
       ELSE <<Scale(dx, -low), Scale(dy, -low)>>

\* an angle is arctan2 of a direction plus a fraction of degrees
BaseAngle(direction) == [atan2 |-> direction, plus |-> Rat(0, 1)]

\* np.linspace(start, stop, num, endpoint=False)
LinspaceNoEndpoint(start, stop, num) ==
    LET step == RatDiv(RatSub(stop, start), Rat(num, 1))
    IN [i \in 1..num |-> RatAdd(start, RatMul(Rat(i - 1, 1), step))]

\* np.linspace(start, stop, num) for num >= 2, on the `plus` parts
Linspace(start, stop, num) ==
    LET step == RatDiv(RatSub(stop, start), Rat(num - 1, 1))
    IN [i \in 1..num |-> RatAdd(start, RatMul(Rat(i - 1, 1), step))]

\* the list `angles` for a router with n_peers peers
FanAngles(base_angle, n_peers) ==
    IF n_peers = 1 THEN <<base_angle>>
    ELSE LET half == Rat(SpreadDeg, 2)
             offs == Linspace(RatSub(base_angle.plus, half),
                              RatAdd(base_angle.plus, half), n_peers)
         IN [i \in 1..n_peers |-> [base_angle EXCEPT !.plus = offs[i]]]

\* router_pos + peer_distance * (cos(angle), sin(angle))
PlaceAt(router_pos, angle) ==
    [origin |-> router_pos, distance |-> PeerDistance, angle |-> angle]

\* the loop `for i, peer_id in enumerate(peers)`
RECURSIVE PlacePeers(_, _, _, _, _)
PlacePeers(p, router_pos, peers, angles, i) ==
    IF i > Len(peers) THEN p
    ELSE PlacePeers(Put(p, peers[i], PlaceAt(router_pos, angles[i])),
                    router_pos, peers, angles, i + 1)

\* one iteration of `for router, peers in peers_by_router.items()`
LogPlace ==
    /\ pc = "log_place"
    /\ fi <= Len(peers_by_router)
    /\ LET router == peers_by_router[fi].router
           peers == peers_by_router[fi].peers
           router_pos == pos[router]
           angles == FanAngles(BaseAngle(Direction(router_pos, router_center)),
                               Len(peers))
       IN /\ fan' = angles
          /\ pos' = PlacePeers(pos, router_pos, peers, angles, 1)
    /\ fi' = fi + 1
    /\ UNCHANGED <<gen_vars, env_vars, main_vars, tunnel_vars, router_vars, peer_vars,
                   router_center, peers_by_router, G, drawn>>

\* nx.Graph(): add_node for routers and peers, add_edge for both edge lists
BuildGraph(nodes, peers, internal, external) ==
    LET edges == internal \o external
        E == {{edges[i][1], edges[i][2]} : i \in 1..Len(edges)}
    IN [nodes |-> SeqToSet(nodes) \cup SeqToSet(peers) \cup UNION E,
        edges |-> E]

LogGraph ==
    /\ pc = "log_place"
    /\ fi > Len(peers_by_router)
    /\ G' = BuildGraph(router_nodes, dn42_peers \o other_peers,
                       ibgp_edges, external_edges)
    /\ pc' = "log_draw"
    /\ UNCHANGED <<gen_vars, env_vars, routers, files, exit_code, stderr, tunnel_vars,
                   router_vars, peer_vars, router_center, peers_by_router,
                   fi, fan, pos, drawn>>

\* the nodes whose position the drawing calls look up
NodesDrawn ==
    SeqToSet(router_nodes) \cup SeqToSet(dn42_peers) \cup SeqToSet(other_peers)
    \cup DOMAIN peer_labels
    \cup UNION {{external_edges[i][1], external_edges[i][2]} :
                   i \in 1..Len(external_edges)}
    \cup UNION {{ibgp_edges[i][1], ibgp_edges[i][2]} : i \in 1..Len(ibgp_edges)}

\* the drawing calls of generate_logical_diagram
DrawLogical ==
    [external |-> external_edges,
     internal |-> ibgp_edges,
     routers |-> router_nodes,
     dn42 |-> dn42_peers,
     other |-> other_peers,
     labels |-> peer_labels @@ router_labels,
     edge_texts |-> edge_labels_internal,
     legend |-> <<"I","n","t","e","r","n","a","l">> \o sr_label]

\* a node without a position makes networkx raise
LogDraw ==
    /\ pc = "log_draw"
    /\ IF NodesDrawn \subseteq DOMAIN pos
       THEN /\ drawn' = DrawLogical
            /\ pc' = "log_save"
            /\ UNCHANGED <<exit_code, stderr>>
       ELSE Raise /\ UNCHANGED drawn
    /\ UNCHANGED <<gen_vars, env_vars, routers, files, tunnel_vars, router_vars,
                   peer_vars, layout_vars>>

\* plt.savefig, return; main() prints its confirmation and ends
LogSave ==
    /\ pc = "log_save"
    /\ files' = files \cup {LOGICAL_PNG}
    /\ pc' = "done"
    /\ exit_code' = 0
    /\ ClearLocals
    /\ UNCHANGED <<gen_vars, env_vars, routers, stderr>>

\* ------------------------------------------------------------ main.py
NodeRecords ==
    {[name |-> "a", ip |-> 1], [name |-> "a", ip |-> 2], [name |-> "b", ip |-> 1]}
NodeNames == {n.name : n \in NodeRecords}

\* entries of config["peers"][node_name]; `asn` is optional
GenPeerEntries ==
    {[name |-> "p1", asn |-> <<64512>>],
     [name |-> "p2", asn |-> <<>>],
     [name |-> "p3", asn |-> <<64513>>]}

NoNode == [name |-> "", ip |-> 0]

\* template.render(...): the text is determined by the template and its arguments
Render(template, node, peer, peers) ==
    [template |-> template, node |-> node, peer |-> peer, peers |-> peers,
     text |-> ""]
\* a literal passed to f.write
Literal(text) ==
    [template |-> "", node |-> NoNode, peer |-> <<>>, peers |-> <<>>,
     text |-> text]

ROUTE_MAP_HEADER == "! Route-maps configuration\n"

\* os.path.join(node_name, filename)
PathJoin(dir, file) == <<dir, file>>

\* f"wg{peer['asn']}.conf"
WgFilename(asn) == "wg" \o ToString(asn) \o ".conf"

\* peer.get("asn") as a condition: an absent key and 0 are false
HasAsn(peer) == Len(peer.asn) = 1 /\ peer.asn[1] # 0

\* config.get("peers", {}).get(node_name, [])
PeersOf(cfg, node_name) ==
    IF node_name \in DOMAIN cfg.peers THEN cfg.peers[node_name] ELSE <<>>

\* open(path, "w"), then the writes: the file holds just these chunks
WriteFile(files_, path, chunks) == Put(files_, path, chunks)

\* an append that truncates, as open(path, "w") does
AppendFileTruncating(files_, path, chunks) == Put(files_, path, chunks)

\* open(path, "a"), then the writes: the chunks follow what the file holds
AppendFile(files_, path, chunks) ==
    Put(files_, path, (IF path \in DOMAIN files_ THEN files_[path] ELSE <<>>) \o chunks)

\* the two writes of lines 35-37
FrrFirstWrites(node, peers) ==
    <<Render("global.j2", node, <<>>, <<>>), Render("bgp.j2", node, <<>>, peers)>>

\* the three writes of lines 42-45
FrrAppendedWrites(node, peers) ==
    <<Literal(NL), Literal(ROUTE_MAP_HEADER), Render("route_maps.j2", node, <<>>, peers)>>

GenInit ==
    /\ \E ns \in SeqsUpTo(NodeRecords, MaxNodes) :
         \E ps \in [NodeNames -> SeqsUpTo(GenPeerEntries, MaxGenPeers)] :
            config = [nodes |-> ns, peers |-> ps]
    /\ gpc = "node" /\ ni = 1 /\ pj = 0
    /\ filename = <<>>
    /\ fs = EmptyDict /\ dirs = {} /\ gen_exit = -1

\* `for node in config["nodes"]`: node_name, peers, os.makedirs
GenStartNode ==
    /\ gpc = "node"
    /\ ni <= Len(config.nodes)
    /\ dirs' = dirs \cup {config.nodes[ni].name}
    /\ pj' = 1
    /\ gpc' = "peers"
    /\ UNCHANGED <<topo_vars, config, ni, filename, fs, gen_exit>>

\* one iteration of `for peer in peers`; `filename` is assigned only for a
\* peer with an asn, and reading it unbound raises NameError
GenPeer ==
    /\ gpc = "peers"
    /\ pj <= Len(PeersOf(config, config.nodes[ni].name))
    /\ LET node == config.nodes[ni]
           peer == PeersOf(config, node.name)[pj]
           wg_config == Render("wg.j2", node, <<peer>>, <<>>)
           name == IF HasAsn(peer) THEN <<WgFilename(peer.asn[1])>> ELSE filename
       IN /\ filename' = name
          /\ IF Len(name) = 0
             THEN /\ gpc' = "crashed" /\ gen_exit' = 1
                  /\ UNCHANGED <<fs, pj>>
             ELSE /\ fs' = WriteFile(fs, PathJoin(node.name, name[1]), <<wg_config>>)
                  /\ pj' = pj + 1
                  /\ UNCHANGED <<gpc, gen_exit>>
    /\ UNCHANGED <<topo_vars, config, ni, dirs>>

\* frr.conf is opened for writing: global text, then BGP text
GenWriteFrr ==
    /\ gpc = "peers"
    /\ pj > Len(PeersOf(config, config.nodes[ni].name))
    /\ LET node == config.nodes[ni]
       IN fs' = WriteFile(fs, PathJoin(node.name, "frr.conf"),
                          FrrFirstWrites(node, PeersOf(config, node.name)))
    /\ gpc' = "route_maps"
    /\ UNCHANGED <<topo_vars, config, ni, pj, filename, dirs, gen_exit>>

\* frr.conf is opened for appending: newline, header, route-map text
GenAppendRouteMaps ==
    /\ gpc = "route_maps"
    /\ LET node == config.nodes[ni]
       IN fs' = AppendFile(fs, PathJoin(node.name, "frr.conf"),
                           FrrAppendedWrites(node, PeersOf(config, node.name)))
    /\ ni' = ni + 1
    /\ gpc' = "node"
    /\ UNCHANGED <<topo_vars, config, pj, filename, dirs, gen_exit>>

\* the loop over nodes is over: the script ends
GenFinish ==
    /\ gpc = "node"
    /\ ni > Len(config.nodes)
    /\ gpc' = "done"
    /\ gen_exit' = 0
    /\ UNCHANGED <<topo_vars, config, ni, pj, filename, fs, dirs>>

\* ------------------------------------------------------- specifications
\* main.py before it is run
GenIdle ==
    /\ config = [nodes |-> <<>>, peers |-> [n \in NodeNames |-> <<>>]]
    /\ gpc = "idle" /\ ni = 0 /\ pj = 0 /\ filename = <<>>
    /\ fs = EmptyDict /\ dirs = {} /\ gen_exit = -1

\* generate_topology.py before it is run
TopoIdle ==
    /\ hosts_file = FALSE /\ inventory = <<>> /\ global_file = FALSE
    /\ global_yml = DefaultGlobalYml /\ HAS_CARTOPY = FALSE
    /\ pc = "idle" /\ routers = <<>> /\ files = {} /\ exit_code = -1
    /\ stderr = FALSE
    /\ LocalsCleared

\* one run of scripts/generate_topology.py
Init == TopoInit /\ GenIdle

Next ==
    \/ MainLoadInventory
    \/ GeoCollect \/ GeoTunnel \/ GeoDraw \/ GeoSave
    \/ LogCollect \/ LogTunnel \/ LogPeers \/ LogGroup \/ LogPlace
    \/ LogGraph \/ LogDraw \/ LogSave

Spec == Init /\ [][Next]_vars

\* one run of main.py
GenSpecInit == GenInit /\ TopoIdle

GenNext ==
    \/ GenStartNode \/ GenPeer \/ GenWriteFrr \/ GenAppendRouteMaps
    \/ GenFinish

GenSpec == GenSpecInit /\ [][GenNext]_vars

\* one run of scripts/generate_topology.py on the inventory of a single site:
\* hosts frk-1, frk-2, ..., each with its host_vars file
SiteHost(i) == <<"f","r","k","-">> \o DecStr(i)

SiteHostVars ==
    {[loopback |-> lo, peers |-> p, bgp_peers |-> <<>>] :
        lo \in Loopbacks,
        p \in {q \in SeqsUpTo(Dn42Entries, 2) :
                   \A i, j \in 1..Len(q) : i < j => q[i].asn < q[j].asn}}

SiteInventories ==
    UNION {{[i \in 1..k |-> [host |-> SiteHost(i), vars |-> <<v[i]>>]] :
               v \in [1..k -> SiteHostVars]} : k \in 0..MaxSiteRouters}

SiteTunnelDescs ==
    {[routers |-> <<SiteHost(1), SiteHost(2)>>, ospf_cost |-> <<>>]}

SiteInit ==
    /\ hosts_file = TRUE
    /\ global_file = TRUE
    /\ HAS_CARTOPY \in BOOLEAN
    /\ inventory \in SiteInventories
    /\ \E tl \in SeqsUpTo(SiteTunnelDescs, 1) :
          global_yml = [intra_network_tunnels |-> <<tl>>,
                        segment_routing_enabled |-> <<FALSE>>]
    /\ pc = "main" /\ routers = <<>> /\ files = {} /\ exit_code = -1
    /\ stderr = FALSE
    /\ LocalsCleared
    /\ GenIdle

SiteSpec == SiteInit /\ [][Next]_vars

\* ================================================================ claims
\* the tunnel loop of either diagram function is over
GeoTunnelsDone == pc = "geo_tunnels" /\ ti > Len(intra_network_tunnels)
LogTunnelsDone == pc = "log_loops" /\ ti > Len(intra_network_tunnels)

Hostnames == {routers[i].hostname : i \in 1..Len(routers)}

PairOf(edge) == {edge[1], edge[2]}

\* the unordered pairs of existing routers named by one descriptor or more
NamedPairs ==
    {PairOf(intra_network_tunnels[i].routers) :
        i \in {j \in 1..Len(intra_network_tunnels) :
                  /\ Len(intra_network_tunnels[j].routers) = 2
                  /\ SeqToSet(intra_network_tunnels[j].routers) \subseteq Hostnames}}

EdgeEntriesFor(pair) ==
    Cardinality({i \in 1..Len(ibgp_edges) : PairOf(ibgp_edges[i]) = pair})
LabelsFor(labels, pair) ==
    Cardinality({k \in DOMAIN labels : PairOf(k) = pair})

\* C1: once every tunnel descriptor has been processed, each unordered pair
\* of existing routers named by one or more descriptors has exactly one
\* entry in ibgp_edges and exactly one label in the internal edge-label map,
\* in generate_geo_map and in generate_logical_diagram.
C1_OneInternalEdgePerPair ==
    /\ GeoTunnelsDone =>
          \A pair \in NamedPairs :
             EdgeEntriesFor(pair) = 1 /\ LabelsFor(edge_info, pair) = 1
    /\ LogTunnelsDone =>
          \A pair \in NamedPairs :
             EdgeEntriesFor(pair) = 1 /\ LabelsFor(edge_labels_internal, pair) = 1

\* the graph is built
GraphBuilt == pc = "log_draw"

RECURSIVE PeerEntriesOf(_)
PeerEntriesOf(rs) ==
    IF Len(rs) = 0 THEN 0
    ELSE Len(rs[1].peers) + Len(rs[1].bgp_peers) + PeerEntriesOf(Tail(rs))

PeerNodesOfG == G.nodes \ Hostnames
ExternalEdgesOfG == {e \in G.edges : ~(e \subseteq Hostnames)}

\* C2: in the built graph G the number of peer nodes equals the total number
\* of `peers` and `bgp_peers` entries over all routers, and so does the
\* number of external edges.
C2_OneNodeAndEdgePerEntry ==
    GraphBuilt =>
       /\ Cardinality(PeerNodesOfG) = PeerEntriesOf(routers)
       /\ Cardinality(ExternalEdgesOfG) = PeerEntriesOf(routers)

\* C3: when peer placement has finished and before anything is drawn, pos
\* has an entry for every node of G.
C3_LayoutTotal ==
    GraphBuilt => G.nodes \subseteq DOMAIN pos

\* C4: the geographic diagram drawn by a run holds the same router nodes,
\* the same internal edges and the same label texts as the projected branch
\* draws from the same routers and tunnels, whichever branch the run took.
C4_FallbackDrawsTheSame ==
    pc = "geo_save" =>
       LET projected == DrawCartopy(router_nodes, router_positions_geo,
                                    router_labels, ibgp_edges, edge_info)
       IN /\ DrawnNodes(drawn) = DrawnNodes(projected)
          /\ DrawnEdges(drawn) = DrawnEdges(projected)
          /\ DrawnTexts(drawn) = DrawnTexts(projected)

\* a fan has just been placed: the one of peers_by_router[fi - 1]
FanPlaced == pc = "log_place" /\ fi > 1

\* C5: for a router with base angle theta and N attached peers, the peer
\* angles are theta itself when N = 1 and, when N >= 2, the N values
\* theta - 60 + i * 120 / (N - 1) degrees, i = 0..N-1; each peer is placed at
\* the fixed distance from its router along its angle.
C5_FanAngles ==
    FanPlaced =>
       LET router == peers_by_router[fi - 1].router
           peers == peers_by_router[fi - 1].peers
           N == Len(peers)
           theta == BaseAngle(Direction(pos[router], router_center))
       IN /\ Len(fan) = N
          /\ N = 1 => fan[1] = theta
          /\ N >= 2 =>
                \A i \in 0..(N - 1) :
                   /\ fan[i + 1].atan2 = theta.atan2
                   /\ fan[i + 1].plus[1] * (N - 1) =
                         (-60 * (N - 1) + i * 120) * fan[i + 1].plus[2]
          /\ \A i \in 1..N :
                (\A j \in (i + 1)..N : peers[j] # peers[i]) =>
                   /\ pos[peers[i]].origin = pos[router]
                   /\ pos[peers[i]].distance = 45
                   /\ pos[peers[i]].angle = fan[i]

\* a fan of three peers or more has been placed
C5_Witness ==
    FanPlaced /\ Len(peers_by_router[fi - 1].peers) >= 3

\* a descriptor that names two routers of the router list
WellFormed(tunnel) ==
    /\ Len(tunnel.routers) = 2
    /\ tunnel.routers[1] \in Hostnames
    /\ tunnel.routers[2] \in Hostnames

\* the descriptors processed so far, without the ones that are not well formed
KeptTunnels ==
    SelectSeq(SubSeq(intra_network_tunnels, 1, ti - 1), WellFormed)

\* the edge list and the labels the kept descriptors alone account for
ExpectedEdges ==
    [i \in 1..Len(KeptTunnels) |->
        <<KeptTunnels[i].routers[1], KeptTunnels[i].routers[2]>>]
ExpectedLabels ==
    [e \in SeqToSet(ExpectedEdges) |->
        TunnelLabel(KeptTunnels[LastIndex(ExpectedEdges, e)])]

\* C6: a tunnel descriptor that names a router absent from the router set,
\* or whose routers list does not hold exactly two entries, adds no edge and
\* no label and raises no error: at every point of the tunnel loop the edge
\* list and the labels are those of the other descriptors alone.
C6_BadTunnelsSkipped ==
    /\ pc = "geo_tunnels" =>
          ibgp_edges = ExpectedEdges /\ edge_info = ExpectedLabels
    /\ pc = "log_loops" =>
          ibgp_edges = ExpectedEdges /\ edge_labels_internal = ExpectedLabels
    /\ (pc = "failed" /\ hosts_file) => ti > Len(intra_network_tunnels)

\* a tunnel loop is over that skipped one descriptor and kept another
C6_Witness ==
    /\ GeoTunnelsDone \/ LogTunnelsDone
    /\ Len(ibgp_edges) >= 1
    /\ \E i \in 1..Len(intra_network_tunnels) :
          /\ ~WellFormed(intra_network_tunnels[i])
          /\ \E j \in 1..Len(intra_network_tunnels) :
                j > i /\ WellFormed(intra_network_tunnels[j])

\* C7: for every router of the input list there is exactly one router node
\* with its hostname, in the node list of generate_geo_map and in the graph
\* of generate_logical_diagram, whether or not a tunnel or a peer refers to
\* it, and there is no router node for any other hostname.
C7_OneNodePerRouter ==
    /\ pc \in {"geo_tunnels", "geo_save", "log_loops", "log_place",
                "log_draw", "log_save"} =>
          /\ \A i \in 1..Len(routers) :
                Count(router_nodes, routers[i].hostname) = 1
          /\ SeqToSet(router_nodes) = Hostnames
    /\ pc = "geo_save" =>
          /\ DrawnNodes(drawn) = Hostnames
          /\ Len(drawn.markers) = Len(routers)
    /\ pc \in {"log_draw", "log_save"} =>
          /\ Hostnames \subseteq G.nodes
          /\ G.nodes \ (SeqToSet(dn42_peers) \cup SeqToSet(other_peers)) = Hostnames

\* the graph is built for two routers, one that has a peer and one that no
\* peer and no tunnel refers to
C7_Witness ==
    /\ GraphBuilt
    /\ Len(routers) = 2
    /\ Len(external_edges) >= 1
    /\ \E i \in 1..2 :
          /\ Len(routers[i].peers) = 0 /\ Len(routers[i].bgp_peers) = 0
          /\ \A e \in G.edges : routers[i].hostname \notin e

\* C8: when hosts.yml or global.yml is absent the run writes no diagram and
\* does not end with exit code 0.
C8_MissingFileAborts ==
    (~hosts_file \/ ~global_file) =>
       files = {} /\ pc # "done" /\ exit_code # 0

\* C9: every external edge carries a label: the one to a DN42 peer that
\* peer's latency, the one to a non-DN42 peer that peer's type string.
C9_ExternalEdgeLabels ==
    GraphBuilt =>
       \A i \in 1..Len(routers) :
          /\ \A k \in 1..Len(routers[i].peers) :
                LET peer == routers[i].peers[k]
                    edge == <<routers[i].hostname, PeerId(peer.name, peer.asn)>>
                IN /\ edge \in DOMAIN edge_labels_external
                   /\ edge_labels_external[edge] = LatencyLabel(peer)
          /\ \A k \in 1..Len(routers[i].bgp_peers) :
                LET peer == routers[i].bgp_peers[k]
                    edge == <<routers[i].hostname, PeerId(peer.name, peer.remote_as)>>
                IN /\ edge \in DOMAIN edge_labels_external
                   /\ edge_labels_external[edge] =
                         GetOr(peer.type, <<"u","n","k","n","o","w","n">>)

\* the nodes 1..FrrWritten have had their frr.conf opened for writing, the
\* nodes 1..FrrAppended have had the route-maps appended to it
FrrWritten == IF gpc = "route_maps" THEN ni ELSE ni - 1
FrrAppended == ni - 1

\* node k is the last node so far that wrote the frr.conf of its directory
LastWriterOfItsFrr(k) ==
    \A k2 \in (k + 1)..FrrWritten : config.nodes[k2].name # config.nodes[k].name

FrrFiles == {path \in DOMAIN fs : path[2] = "frr.conf"}

\* C10 as stated: the frr.conf of every processed node holds the BGP content
\* first, then the route-map section header, then the route-map content, and
\* nothing before the BGP content.
C10_BgpContentFirst ==
    \A k \in 1..FrrAppended :
       LastWriterOfItsFrr(k) =>
          LET node == config.nodes[k]
              peers == PeersOf(config, node.name)
          IN fs[<<node.name, "frr.conf">>] =
                <<Render("bgp.j2", node, <<>>, peers),
                  Literal("! Route-maps configuration\n"),
                  Render("route_maps.j2", node, <<>>, peers)>>

\* C10 as amended: the frr.conf of every node processed to the end holds the
\* global content, the BGP content, a newline, the route-map section header
\* and the route-map content, in this order and nothing else; every node
\* directory written so far holds exactly one frr.conf, which nodes of the
\* same name share (it holds the content of the last of them).
C10_FrrContent ==
    /\ \A k \in 1..FrrAppended :
          LastWriterOfItsFrr(k) =>
             LET node == config.nodes[k]
                 peers == PeersOf(config, node.name)
             IN fs[<<node.name, "frr.conf">>] =
                   <<Render("global.j2", node, <<>>, <<>>),
                     Render("bgp.j2", node, <<>>, peers),
                     Literal("\n"),
                     Literal("! Route-maps configuration\n"),
                     Render("route_maps.j2", node, <<>>, peers)>>
    /\ FrrFiles = {<<config.nodes[k].name, "frr.conf">> : k \in 1..FrrWritten}

\* the generator has ended after two nodes of different names, the first
\* with peers; both frr.conf files are written
C10_Witness ==
    /\ gpc = "done"
    /\ Len(config.nodes) = 2
    /\ config.nodes[1].name # config.nodes[2].name
    /\ Len(PeersOf(config, config.nodes[1].name)) >= 1
    /\ Cardinality(FrrFiles) = 2

\* the files of the node directories other than frr.conf
WgFiles == DOMAIN fs \ FrrFiles

\* C11: every WireGuard file written so far is named wg<asn>.conf for the asn
\* of the peer whose rendered text it holds and lies in the directory of the
\* node that lists that peer; a peer without an asn leaves the files named
\* after other peers' asns as they were.
C11_WgFileNamedByItsPeer ==
    \A path \in WgFiles :
       /\ Len(fs[path]) = 1
       /\ LET chunk == fs[path][1]
          IN /\ chunk.template = "wg.j2"
             /\ Len(chunk.peer) = 1
             /\ HasAsn(chunk.peer[1])
             /\ path[2] = WgFilename(chunk.peer[1].asn[1])
             /\ path[1] = chunk.node.name
             /\ chunk.peer[1] \in SeqToSet(PeersOf(config, chunk.node.name))

\* sum, in tenths, of coordinate c of the anchors of the first i routers
RECURSIVE AnchorSum(_, _)
AnchorSum(c, i) ==
    IF i = 0 THEN 0 ELSE pos[router_nodes[i]][c] + AnchorSum(c, i - 1)

\* coordinate c of the vector from the centroid of all router anchors to the
\* anchor of `router`, times ten times the number of routers
FromCentroid(router, c) ==
    Len(router_nodes) * pos[router][c] - AnchorSum(c, Len(router_nodes))

\* the anchor of `router` is the centroid of all router anchors
AnchorIsCentroid(router) ==
    FromCentroid(router, 1) = 0 /\ FromCentroid(router, 2) = 0

\* C12: the base angle of a router with attached peers is the angle of the
\* vector from the centroid of all router anchors to the router's anchor;
\* when the anchor is the centroid (a single router, routers that all have
\* the same anchor) the direction is the +x axis, the base angle is 0 and a
\* single peer is placed at the fixed distance along +x from the router.
C12_BaseAngleFromCentroid ==
    FanPlaced =>
       LET router == peers_by_router[fi - 1].router
           peers == peers_by_router[fi - 1].peers
           direction == fan[1].atan2
       IN /\ AnchorIsCentroid(router) =>
                /\ direction = PlusX
                /\ Len(peers) = 1 =>
                      /\ fan[1].plus = Rat(0, 1)
                      /\ pos[peers[1]] =
                            [origin |-> pos[router], distance |-> PeerDistance,
                             angle |-> [atan2 |-> PlusX, plus |-> Rat(0, 1)]]
          /\ ~AnchorIsCentroid(router) =>
                /\ direction = Direction(pos[router],
                                         RouterCenter(router_nodes, pos))
                /\ \A c \in 1..2 :
                      /\ FromCentroid(router, c) > 0 =>
                            Len(direction[c].bits) > 0 /\ ~direction[c].neg
                      /\ FromCentroid(router, c) < 0 =>
                            Len(direction[c].bits) > 0 /\ direction[c].neg

\* the peer entries of one router in the order the loop body reads them: its
\* `peers`, then its `bgp_peers`, each with the router and the entry's identity
\* and node label
OccurrencesOf(router) ==
    [k \in 1..Len(router.peers) |->
        [hostname |-> router.hostname,
         id |-> PeerId(router.peers[k].name, router.peers[k].asn),
         label |-> PeerLabel(router.peers[k].name, router.peers[k].asn)]]
    \o [k \in 1..Len(router.bgp_peers) |->
        [hostname |-> router.hostname,
         id |-> PeerId(router.bgp_peers[k].name, router.bgp_peers[k].remote_as),
         label |-> PeerLabel(router.bgp_peers[k].name,
                             router.bgp_peers[k].remote_as)]]

\* the peer entries of the routers rs, router after router
RECURSIVE Occurrences(_)
Occurrences(rs) ==
    IF Len(rs) = 0 THEN <<>> ELSE OccurrencesOf(rs[1]) \o Occurrences(Tail(rs))

\* the last entry among occ that has the identity of entry i
LastOccurrence(occ, i) ==
    occ[CHOOSE j \in 1..Len(occ) :
           /\ occ[j].id = occ[i].id
           /\ \A k \in (j + 1)..Len(occ) : occ[k].id # occ[i].id]

\* C13: when peer entries resolve to the same identity name_asn, the label
\* and the owning router recorded for the identity are those of the last such
\* entry, the graph holds one node for the identity, and the external edge of
\* every entry is kept: external_edges holds one edge per entry, in order, and
\* each of them is an edge of the graph between the entry's router and that
\* one node.
C13_CollisionOverwrites ==
    GraphBuilt =>
       LET occ == Occurrences(routers)
       IN /\ \A i \in 1..Len(occ) :
                /\ peer_to_router[occ[i].id] = LastOccurrence(occ, i).hostname
                /\ peer_labels[occ[i].id] = LastOccurrence(occ, i).label
                /\ occ[i].id \in G.nodes
                /\ {occ[i].hostname, occ[i].id} \in G.edges
          /\ PeerNodesOfG = {occ[i].id : i \in 1..Len(occ)}
          /\ DOMAIN peer_to_router = PeerNodesOfG
          /\ DOMAIN peer_labels = PeerNodesOfG
          /\ external_edges = [i \in 1..Len(occ) |-> <<occ[i].hostname, occ[i].id>>]

\* the graph is built from two entries of the same identity that two
\* different routers list
C13_Witness ==
    /\ GraphBuilt
    /\ LET occ == Occurrences(routers)
       IN \E i, j \in 1..Len(occ) :
             /\ i < j
             /\ occ[i].id = occ[j].id
             /\ occ[i].hostname # occ[j].hostname
             /\ peer_to_router[occ[i].id] = occ[j].hostname
             /\ Cardinality(PeerNodesOfG) = 1
             /\ Len(external_edges) = 2

====
